---- MODULE Spec2Model ----
(***************************************************************************)
(* A model of rsync_rust: signature of a basis file, delta of an updated   *)
(* file against that signature, and patch of the basis file by the delta.  *)
(*                                                                         *)
(* Bytes are natural numbers 0..255, files are sequences of bytes.  Vec    *)
(* indexes of the source are 0-based; sequences here are 1-based, so the   *)
(* element the source calls v[i] is v[i + 1] below.                        *)
(*                                                                         *)
(* Two library functions are outside the repository and are modelled by    *)
(* their contract:                                                         *)
(*  - rolling_hash_rust::RollingHash is a window of characters whose hash  *)
(*    is a polynomial of the window content (HashBase, HashModulus);       *)
(*  - std DefaultHasher is modelled as a polynomial over the hashed stream *)
(*    (length prefix, then the bytes) that has no collision on the blocks  *)
(*    the bounds allow (StrongHashIsCollisionFree below checks it).        *)
(***************************************************************************)
EXTENDS Integers, Sequences, FiniteSets, TLC

\* ------------------------------------------------------------------ bounds
MaxLen == 3
MaxChunk == 4
MaxTokens == 2
MaxHashes == 2
MaxWritten == 2
HashBase == 256
HashModulus == 1000003
StrongBase == 257
StrongModulus == 8000009

\* The bytes files are made of: an ASCII letter ('A') and two bytes (0x80,
\* 0x81) that are not valid UTF-8 on their own.
Byte == {65, 128, 129}

RECURSIVE SeqsUpTo(_)
SeqsUpTo(n) ==
    IF n = 0 THEN {<<>>}
    ELSE LET shorter == SeqsUpTo(n - 1)
         IN  shorter \cup {Append(s, b) : s \in {t \in shorter : Len(t) = n - 1}, b \in Byte}

Files == SeqsUpTo(MaxLen)
ChunkSizes == 1..MaxChunk

Min(a, b) == IF a < b THEN a ELSE b

\* ------------------------------------------------------ std: slice::chunks
\* (variant: chunks_exact, which leaves a short last chunk out)
RECURSIVE ChunksExact(_, _)
ChunksExact(bytes, size) ==
    IF Len(bytes) < size THEN <<>>
    ELSE <<SubSeq(bytes, 1, size)>> \o ChunksExact(SubSeq(bytes, size + 1, Len(bytes)), size)

RECURSIVE Chunks(_, _)
Chunks(bytes, size) ==
    IF Len(bytes) = 0 THEN <<>>
    ELSE LET n == Min(size, Len(bytes))
         IN  <<SubSeq(bytes, 1, n)>> \o Chunks(SubSeq(bytes, n + 1, Len(bytes)), size)

\* ------------------------------------------- std: String::from_utf8_lossy
\* The characters (code points) of the lossy decoding: every maximal invalid
\* part of the input becomes one U+FFFD.
ReplacementCharacter == 65533

IsContinuation(b) == b \in 128..191

RECURSIVE Utf8LossyFrom(_, _)
Utf8LossyFrom(bytes, i) ==
    IF i > Len(bytes) THEN <<>>
    ELSE
      LET b0 == bytes[i]
          at(k) == IF i + k <= Len(bytes) THEN bytes[i + k] ELSE -1
          secondOk ==
              CASE b0 = 224 -> at(1) \in 160..191
                [] b0 \in 225..236 -> at(1) \in 128..191
                [] b0 = 237 -> at(1) \in 128..159
                [] b0 \in 238..239 -> at(1) \in 128..191
                [] b0 = 240 -> at(1) \in 144..191
                [] b0 \in 241..243 -> at(1) \in 128..191
                [] b0 = 244 -> at(1) \in 128..143
                [] OTHER -> FALSE
      IN
      IF b0 < 128 THEN <<b0>> \o Utf8LossyFrom(bytes, i + 1)
      ELSE IF b0 \in 194..223 THEN
          IF IsContinuation(at(1))
          THEN <<(b0 % 32) * 64 + (at(1) % 64)>> \o Utf8LossyFrom(bytes, i + 2)
          ELSE <<ReplacementCharacter>> \o Utf8LossyFrom(bytes, i + 1)
      ELSE IF b0 \in 224..239 THEN
          IF ~secondOk THEN <<ReplacementCharacter>> \o Utf8LossyFrom(bytes, i + 1)
          ELSE IF ~IsContinuation(at(2))
          THEN <<ReplacementCharacter>> \o Utf8LossyFrom(bytes, i + 2)
          ELSE <<(b0 % 16) * 4096 + (at(1) % 64) * 64 + (at(2) % 64)>>
                   \o Utf8LossyFrom(bytes, i + 3)
      ELSE IF b0 \in 240..244 THEN
          IF ~secondOk THEN <<ReplacementCharacter>> \o Utf8LossyFrom(bytes, i + 1)
          ELSE IF ~IsContinuation(at(2))
          THEN <<ReplacementCharacter>> \o Utf8LossyFrom(bytes, i + 2)
          ELSE IF ~IsContinuation(at(3))
          THEN <<ReplacementCharacter>> \o Utf8LossyFrom(bytes, i + 3)
          ELSE <<(b0 % 8) * 262144 + (at(1) % 64) * 4096 + (at(2) % 64) * 64 + (at(3) % 64)>>
                   \o Utf8LossyFrom(bytes, i + 4)
      ELSE <<ReplacementCharacter>> \o Utf8LossyFrom(bytes, i + 1)

from_utf8_lossy(bytes) == Utf8LossyFrom(bytes, 1)

\* ------------------------------------------ rolling_hash_rust::RollingHash
\* The hasher is its window of characters; the hash is a function of it.
RECURSIVE PolynomialHash(_, _)
PolynomialHash(chars, acc) ==
    IF chars = <<>> THEN acc
    ELSE PolynomialHash(Tail(chars), (acc * HashBase + Head(chars)) % HashModulus)

from_initial_string(string) == string
pop_front(hasher) == IF hasher = <<>> THEN hasher ELSE Tail(hasher)
push_back(hasher, char) == Append(hasher, char)
get_current_hash(hasher) == PolynomialHash(hasher, 0)

\* ------------------------------------------------- calculate_strong_hash
\* <[u8] as Hash>::hash writes the length, then the bytes, to the hasher.
RECURSIVE HasherFinish(_, _)
HasherFinish(stream, acc) ==
    IF stream = <<>> THEN acc
    ELSE HasherFinish(Tail(stream), (acc * StrongBase + Head(stream) + 1) % StrongModulus)

calculate_strong_hash(content) == HasherFinish(<<Len(content)>> \o content, 0)

\* The strong hash tells any two blocks of the model apart.
StrongHashIsCollisionFree ==
    \A a \in SeqsUpTo(MaxLen), b \in SeqsUpTo(MaxLen) :
        calculate_strong_hash(a) = calculate_strong_hash(b) => a = b

\* --------------------------------------------------- compute_signature
BlockRollingHash(block) == get_current_hash(from_initial_string(from_utf8_lossy(block)))

\* (variant: the rolling hashes are stored last block first)
compute_signature_rolling_reversed(basis, size) ==
    LET blocks == Chunks(basis, size)
    IN  [strong_hashes  |-> [i \in 1..Len(blocks) |-> calculate_strong_hash(blocks[i])],
         rolling_hashes |-> [i \in 1..Len(blocks) |->
                                BlockRollingHash(blocks[Len(blocks) + 1 - i])]]

\* (variant: a rolling hash only for the blocks of full length)
compute_signature_full_blocks(basis, size) ==
    LET blocks == Chunks(basis, size)
        full == SelectSeq(blocks, LAMBDA b : Len(b) = size)
    IN  [strong_hashes  |-> [i \in 1..Len(blocks) |-> calculate_strong_hash(blocks[i])],
         rolling_hashes |-> [i \in 1..Len(full) |-> BlockRollingHash(full[i])]]

compute_signature(basis, size) ==
    LET blocks == Chunks(basis, size)
    IN  [strong_hashes  |-> [i \in 1..Len(blocks) |-> calculate_strong_hash(blocks[i])],
         rolling_hashes |-> [i \in 1..Len(blocks) |-> BlockRollingHash(blocks[i])]]

\* ------------------------------------------------------------ Token, Delta
BlockIndex(i) == [kind |-> "BlockIndex", value |-> i]
ByteLiteral(b) == [kind |-> "ByteLiteral", value |-> b]

\* ------------------------------------------ compute_delta_to_our_file
\* One rolling hash for each window of `size` bytes of the updated file: the
\* first from the lossy string of the first window, the others by sliding.
RECURSIVE SlideWindows(_, _, _, _, _)
SlideWindows(updated, size, start, hasher, rolling_hashes) ==
    IF start + size - 1 > Len(updated) THEN rolling_hashes
    ELSE LET slid == push_back(pop_front(hasher), updated[start + size - 1])
         IN  SlideWindows(updated, size, start + 1, slid,
                          Append(rolling_hashes, get_current_hash(slid)))

sliding_blocks_rolling_hashes(updated, size) ==
    IF size <= Len(updated)
    THEN LET hasher == from_initial_string(from_utf8_lossy(SubSeq(updated, 1, size)))
         IN  SlideWindows(updated, size, 2, hasher, <<get_current_hash(hasher)>>)
    ELSE <<>>

\* (variant: the first insertion of a key is kept)
MapInsertIfAbsent(map, key, value) ==
    [k \in DOMAIN map \cup {key} |-> IF k \in DOMAIN map THEN map[k] ELSE value]

\* HashMap::insert: a later insertion of the same key replaces the value.
MapInsert(map, key, value) ==
    [k \in DOMAIN map \cup {key} |-> IF k = key THEN value ELSE map[k]]

EmptyMap == [k \in {} |-> 0]

RECURSIVE InsertFrom(_, _, _)
InsertFrom(map, rolling_hashes, i) ==
    IF i > Len(rolling_hashes) THEN map
    ELSE InsertFrom(MapInsert(map, rolling_hashes[i], i - 1), rolling_hashes, i + 1)

rolling_hashes_map(sig) == InsertFrom(EmptyMap, sig.rolling_hashes, 1)

\* The body of the `while index < our_file_size` loop at cursor `index`
\* (0-based): the token pushed and the amount the cursor advances by.
\* (variant: the end of the block is taken as exclusive)
IsTrailingExclusiveEnd(updated, size, idx) == idx + size >= Len(updated)

IsTrailing(updated, size, idx) == idx + size - 1 >= Len(updated)

HasCandidate(sliding, map, idx) == sliding[idx + 1] \in DOMAIN map

\* `signature.strong_hashes[matched_block_index]` panics when the signature has
\* fewer strong hashes than the index found in the map.
StrongHashInRange(sig, sliding, map, idx) ==
    map[sliding[idx + 1]] + 1 \in DOMAIN sig.strong_hashes

\* (variant: the rolling hash alone decides a match)
StrongHashesNotCompared(sig, updated, size, sliding, map, idx) == TRUE

StrongHashesMatch(sig, updated, size, sliding, map, idx) ==
    LET matched_block_index == map[sliding[idx + 1]]
        our_block_strong_hash == calculate_strong_hash(SubSeq(updated, idx + 1, idx + size))
        their_strong_hash == sig.strong_hashes[matched_block_index + 1]
    IN  our_block_strong_hash = their_strong_hash

\* (variant: the cursor moves one byte after a match)
ScanStepAdvancesByOne(sig, updated, size, sliding, map, idx) ==
    LET our_block_starting_byte == updated[idx + 1]
    IN  IF IsTrailing(updated, size, idx)
        THEN [token |-> ByteLiteral(our_block_starting_byte), advance |-> 1]
        ELSE IF HasCandidate(sliding, map, idx)
        THEN IF StrongHashesMatch(sig, updated, size, sliding, map, idx)
             THEN [token |-> BlockIndex(map[sliding[idx + 1]]), advance |-> 1]
             ELSE [token |-> ByteLiteral(our_block_starting_byte), advance |-> 1]
        ELSE [token |-> ByteLiteral(our_block_starting_byte), advance |-> 1]

\* (variant: a trailing block that has the strong hash of the signature's last
\* entry is sent as a reference to it)
ScanStepMatchesShortTail(sig, updated, size, sliding, map, idx) ==
    LET our_block_starting_byte == updated[idx + 1]
        last == Len(sig.strong_hashes)
    IN  IF IsTrailing(updated, size, idx)
        THEN IF /\ last >= 1
                /\ calculate_strong_hash(SubSeq(updated, idx + 1, Len(updated)))
                       = sig.strong_hashes[last]
             THEN [token |-> BlockIndex(last - 1), advance |-> Len(updated) - idx]
             ELSE [token |-> ByteLiteral(our_block_starting_byte), advance |-> 1]
        ELSE IF HasCandidate(sliding, map, idx)
        THEN IF StrongHashesMatch(sig, updated, size, sliding, map, idx)
             THEN [token |-> BlockIndex(map[sliding[idx + 1]]), advance |-> size]
             ELSE [token |-> ByteLiteral(our_block_starting_byte), advance |-> 1]
        ELSE [token |-> ByteLiteral(our_block_starting_byte), advance |-> 1]

\* (variant: the cursor is pushed as the block index)
ScanStepPushesCursor(sig, updated, size, sliding, map, idx) ==
    LET our_block_starting_byte == updated[idx + 1]
    IN  IF IsTrailing(updated, size, idx)
        THEN [token |-> ByteLiteral(our_block_starting_byte), advance |-> 1]
        ELSE IF HasCandidate(sliding, map, idx)
        THEN IF StrongHashesMatch(sig, updated, size, sliding, map, idx)
             THEN [token |-> BlockIndex(idx), advance |-> size]
             ELSE [token |-> ByteLiteral(our_block_starting_byte), advance |-> 1]
        ELSE [token |-> ByteLiteral(our_block_starting_byte), advance |-> 1]

ScanStep(sig, updated, size, sliding, map, idx) ==
    LET our_block_starting_byte == updated[idx + 1]
    IN  IF IsTrailing(updated, size, idx)
        THEN [token |-> ByteLiteral(our_block_starting_byte), advance |-> 1]
        ELSE IF HasCandidate(sliding, map, idx)
        THEN IF StrongHashesMatch(sig, updated, size, sliding, map, idx)
             THEN [token |-> BlockIndex(map[sliding[idx + 1]]), advance |-> size]
             ELSE [token |-> ByteLiteral(our_block_starting_byte), advance |-> 1]
        ELSE [token |-> ByteLiteral(our_block_starting_byte), advance |-> 1]

\* What one iteration at cursor `idx` reads: the bytes of the updated file,
\* the entry of the window hashes, the entry of the signature's strong hashes,
\* and whether it computes the strong hash of the window at `idx`.
\* (variant: the window's hash is looked up before the trailing test)
IterationAccessesLooksUpFirst(updated, size, sliding, map, idx) ==
    LET candidate == ~IsTrailing(updated, size, idx) /\ HasCandidate(sliding, map, idx)
    IN  [updated_file |-> IF candidate THEN idx..(idx + size - 1) ELSE {idx},
         rolling_hashes |-> {idx},
         strong_hashes |-> IF candidate THEN {map[sliding[idx + 1]]} ELSE {},
         strong_hash_computed |-> IF candidate THEN {idx} ELSE {}]

\* (variant: the strong hash of every whole window is computed)
IterationAccessesHashesEveryWindow(updated, size, sliding, map, idx) ==
    LET whole == ~IsTrailing(updated, size, idx)
        candidate == whole /\ HasCandidate(sliding, map, idx)
    IN  [updated_file |-> IF whole THEN idx..(idx + size - 1) ELSE {idx},
         rolling_hashes |-> IF whole THEN {idx} ELSE {},
         strong_hashes |-> IF candidate THEN {map[sliding[idx + 1]]} ELSE {},
         strong_hash_computed |-> IF whole THEN {idx} ELSE {}]

IterationAccesses(updated, size, sliding, map, idx) ==
    LET candidate == ~IsTrailing(updated, size, idx) /\ HasCandidate(sliding, map, idx)
    IN  [updated_file |-> IF candidate THEN idx..(idx + size - 1) ELSE {idx},
         rolling_hashes |-> IF IsTrailing(updated, size, idx) THEN {} ELSE {idx},
         strong_hashes |-> IF candidate THEN {map[sliding[idx + 1]]} ELSE {},
         strong_hash_computed |-> IF candidate THEN {idx} ELSE {}]

NoAccesses == [updated_file |-> {}, rolling_hashes |-> {}, strong_hashes |-> {},
               strong_hash_computed |-> {}]

MergeAccesses(before, now) ==
    [updated_file |-> before.updated_file \cup now.updated_file,
     rolling_hashes |-> before.rolling_hashes \cup now.rolling_hashes,
     strong_hashes |-> before.strong_hashes \cup now.strong_hashes,
     strong_hash_computed |-> before.strong_hash_computed \cup now.strong_hash_computed]

RECURSIVE ScanFrom(_, _, _, _, _, _, _)
ScanFrom(sig, updated, size, sliding, map, idx, toks) ==
    IF idx < Len(updated)
    THEN LET step == ScanStep(sig, updated, size, sliding, map, idx)
         IN  ScanFrom(sig, updated, size, sliding, map, idx + step.advance,
                      Append(toks, step.token))
    ELSE toks

compute_delta_to_our_file(sig, updated, size) ==
    [content |-> ScanFrom(sig, updated, size, sliding_blocks_rolling_hashes(updated, size),
                          rolling_hashes_map(sig), 0, <<>>)]

\* ------------------------------------------------------------ apply_delta
\* `blocks.get(index).unwrap()` panics on an index that is out of range; the
\* call then returns nothing.
\* (variant: an index that is out of range is skipped)
RECURSIVE ExtendFromSkipsMissing(_, _, _, _)
ExtendFromSkipsMissing(blocks, content, i, reconstructed) ==
    IF i > Len(content) THEN [panicked |-> FALSE, bytes |-> reconstructed]
    ELSE IF content[i].kind = "BlockIndex"
    THEN IF content[i].value + 1 \in DOMAIN blocks
         THEN ExtendFromSkipsMissing(blocks, content, i + 1,
                                     reconstructed \o blocks[content[i].value + 1])
         ELSE ExtendFromSkipsMissing(blocks, content, i + 1, reconstructed)
    ELSE ExtendFromSkipsMissing(blocks, content, i + 1, Append(reconstructed, content[i].value))

RECURSIVE ExtendFrom(_, _, _, _)
ExtendFrom(blocks, content, i, reconstructed) ==
    IF i > Len(content) THEN [panicked |-> FALSE, bytes |-> reconstructed]
    ELSE IF content[i].kind = "BlockIndex"
    THEN IF content[i].value + 1 \in DOMAIN blocks
         THEN ExtendFrom(blocks, content, i + 1, reconstructed \o blocks[content[i].value + 1])
         ELSE [panicked |-> TRUE, bytes |-> <<>>]
    ELSE ExtendFrom(blocks, content, i + 1, Append(reconstructed, content[i].value))

\* (variant: the basis is cut with chunks_exact)
apply_delta_chunks_exact(basis, dlt, size) ==
    ExtendFrom(ChunksExact(basis, size), dlt.content, 1, <<>>)

apply_delta(basis, dlt, size) == ExtendFrom(Chunks(basis, size), dlt.content, 1, <<>>)

\* ------------------------------------ rmp_serde::to_vec, rmp_serde::from_slice
\* MessagePack as rmp_serde writes it: an unsigned integer in its shortest
\* form, a Vec as an array, a struct as the array of its fields, and a newtype
\* enum variant as a map of one entry from the variant's name to its value.
\* (Hashes of the model are below 2^31, so the 64-bit form 0xcf never occurs.)
BigEndian(v, width) == [i \in 1..width |-> (v \div (256 ^ (width - i))) % 256]

\* (variant: a value below 256 is written without its marker)
EncodeUintNoMarker(v) ==
    IF v < 256 THEN <<v>>
    ELSE IF v < 65536 THEN <<205>> \o BigEndian(v, 2)
    ELSE <<206>> \o BigEndian(v, 4)

EncodeUint(v) ==
    IF v < 128 THEN <<v>>
    ELSE IF v < 256 THEN <<204>> \o BigEndian(v, 1)
    ELSE IF v < 65536 THEN <<205>> \o BigEndian(v, 2)
    ELSE <<206>> \o BigEndian(v, 4)

EncodeArrayLen(n) ==
    IF n < 16 THEN <<144 + n>> ELSE <<220>> \o BigEndian(n, 2)

EncodeStr(name) == <<160 + Len(name)>> \o name

RECURSIVE Flatten(_)
Flatten(seqs) == IF seqs = <<>> THEN <<>> ELSE Head(seqs) \o Flatten(Tail(seqs))

EncodeUintVec(v) == EncodeArrayLen(Len(v)) \o Flatten([i \in 1..Len(v) |-> EncodeUint(v[i])])

\* "BlockIndex" and "ByteLiteral" in ASCII
BlockIndexName == <<66, 108, 111, 99, 107, 73, 110, 100, 101, 120>>
ByteLiteralName == <<66, 121, 116, 101, 76, 105, 116, 101, 114, 97, 108>>

EncodeToken(t) ==
    <<129>> \o EncodeStr(IF t.kind = "BlockIndex" THEN BlockIndexName ELSE ByteLiteralName)
            \o EncodeUint(t.value)

\* impl From<FileSignature> for Bytes
signature_to_bytes(sig) ==
    EncodeArrayLen(2) \o EncodeUintVec(sig.strong_hashes) \o EncodeUintVec(sig.rolling_hashes)

\* impl From<Delta> for Bytes
delta_to_bytes(dlt) ==
    EncodeArrayLen(1) \o EncodeArrayLen(Len(dlt.content))
        \o Flatten([i \in 1..Len(dlt.content) |-> EncodeToken(dlt.content[i])])

\* The readers return [ok, value, next]: whether a value was read at `pos`,
\* the value, and the position after it.
Failed == [ok |-> FALSE, value |-> 0, next |-> 0]

\* (variant: the first byte is the least significant)
FromLittleEndian(bytes, pos, width) ==
    LET RECURSIVE Value(_, _)
        Value(i, acc) == IF i = 0 THEN acc ELSE Value(i - 1, acc * 256 + bytes[pos + i - 1])
    IN  Value(width, 0)

FromBigEndian(bytes, pos, width) ==
    LET RECURSIVE Value(_, _)
        Value(i, acc) == IF i = width THEN acc ELSE Value(i + 1, acc * 256 + bytes[pos + i])
    IN  Value(0, 0)

DecodeUint(bytes, pos) ==
    IF pos > Len(bytes) THEN Failed
    ELSE LET marker == bytes[pos]
             width == CASE marker = 204 -> 1 [] marker = 205 -> 2 [] marker = 206 -> 4
                        [] OTHER -> 0
         IN  IF marker < 128 THEN [ok |-> TRUE, value |-> marker, next |-> pos + 1]
             ELSE IF width = 0 \/ pos + width > Len(bytes) THEN Failed
             ELSE [ok |-> TRUE, value |-> FromBigEndian(bytes, pos + 1, width),
                   next |-> pos + 1 + width]

DecodeArrayLen(bytes, pos) ==
    IF pos > Len(bytes) THEN Failed
    ELSE LET marker == bytes[pos]
         IN  IF marker \in 144..159 THEN [ok |-> TRUE, value |-> marker - 144, next |-> pos + 1]
             ELSE IF marker = 220 /\ pos + 2 <= Len(bytes)
             THEN [ok |-> TRUE, value |-> FromBigEndian(bytes, pos + 1, 2), next |-> pos + 3]
             ELSE Failed

DecodeToken(bytes, pos) ==
    IF pos + 1 > Len(bytes) \/ bytes[pos] # 129 \/ bytes[pos + 1] \notin 160..191 THEN Failed
    ELSE LET length == bytes[pos + 1] - 160
             name == IF pos + 1 + length <= Len(bytes)
                     THEN SubSeq(bytes, pos + 2, pos + 1 + length) ELSE <<>>
             number == DecodeUint(bytes, pos + 2 + length)
         IN  IF ~number.ok THEN Failed
             ELSE IF name = BlockIndexName
             THEN [ok |-> TRUE, value |-> BlockIndex(number.value), next |-> number.next]
             ELSE IF name = ByteLiteralName /\ number.value < 256
             THEN [ok |-> TRUE, value |-> ByteLiteral(number.value), next |-> number.next]
             ELSE Failed

\* `count` values of one kind ("uint" or "token") read one after the other
DecodeElement(kind, bytes, pos) ==
    IF kind = "uint" THEN DecodeUint(bytes, pos) ELSE DecodeToken(bytes, pos)

RECURSIVE DecodeElements(_, _, _, _, _)
DecodeElements(kind, bytes, pos, count, acc) ==
    IF count = 0 THEN [ok |-> TRUE, value |-> acc, next |-> pos]
    ELSE LET element == DecodeElement(kind, bytes, pos)
         IN  IF ~element.ok THEN Failed
             ELSE DecodeElements(kind, bytes, element.next, count - 1,
                                 Append(acc, element.value))

DecodeVec(kind, bytes, pos) ==
    LET header == DecodeArrayLen(bytes, pos)
    IN  IF ~header.ok THEN Failed
        ELSE DecodeElements(kind, bytes, header.next, header.value, <<>>)

\* impl From<Bytes> for FileSignature: [ok, value]
signature_from_bytes(bytes) ==
    LET header == DecodeArrayLen(bytes, 1)
        strong == IF header.ok THEN DecodeVec("uint", bytes, header.next) ELSE Failed
        rolling == IF strong.ok THEN DecodeVec("uint", bytes, strong.next) ELSE Failed
    IN  IF header.ok /\ header.value = 2 /\ rolling.ok
        THEN [ok |-> TRUE,
              value |-> [strong_hashes |-> strong.value, rolling_hashes |-> rolling.value]]
        ELSE [ok |-> FALSE, value |-> [strong_hashes |-> <<>>, rolling_hashes |-> <<>>]]

\* impl From<Bytes> for Delta: [ok, value]
delta_from_bytes(bytes) ==
    LET header == DecodeArrayLen(bytes, 1)
        content == IF header.ok THEN DecodeVec("token", bytes, header.next) ELSE Failed
    IN  IF header.ok /\ header.value = 1 /\ content.ok
        THEN [ok |-> TRUE, value |-> [content |-> content.value]]
        ELSE [ok |-> FALSE, value |-> [content |-> <<>>]]

\* ------------------------------------------------------------------ state
VARIABLES
    pc,             \* the call the library pipeline is at
    basis_file,     \* the basis file X
    updated_file,   \* the updated file Y
    chunk_size,     \* the chunk size B, the same in the three calls
    signature,      \* compute_signature's result
    our_sliding_blocks_rolling_hashes,  \* delta: one hash per window
    their_rolling_hashes,               \* delta: rolling hash -> block index
    index,          \* delta: the cursor of the scan loop
    tokens,         \* delta: the tokens pushed so far
    delta,          \* compute_delta_to_our_file's result (patch: its argument)
    patch_result,   \* apply_delta's outcome
    patch_chunk_size,   \* the chunk size apply_delta is called with
    accesses,       \* delta: the positions read and hashed by the scan loop so far
    fs,             \* command line: the files, by path
    cli_chunk_size, \* command line: the --chunk-size given to the commands
    cli_pc,         \* command line: the command that runs next
    exit_status,    \* command line: how each command ended
    exit_code,      \* command line: each command's exit code, -1 before it has run
    message,        \* command line: what each command reported when it failed
    disk_space,     \* command line: the bytes each output path can still take
    decoded         \* serialization: what was read back from the written bytes

libVars == <<pc, basis_file, updated_file, chunk_size, signature,
             our_sliding_blocks_rolling_hashes, their_rolling_hashes, index, tokens,
             delta, patch_result, patch_chunk_size, accesses>>

cliVars == <<fs, cli_chunk_size, cli_pc, exit_status, exit_code, message, disk_space>>

vars == <<pc, basis_file, updated_file, chunk_size, signature,
          our_sliding_blocks_rolling_hashes, their_rolling_hashes, index, tokens,
          delta, patch_result, patch_chunk_size, accesses, fs, cli_chunk_size, cli_pc, exit_status, exit_code,
          message, disk_space, decoded>>

NoSignature == [strong_hashes |-> <<>>, rolling_hashes |-> <<>>]
NoDelta == [content |-> <<>>]
NoResult == [panicked |-> FALSE, bytes |-> <<>>]

\* The paths the integration tests give to the three commands.
Paths == {"basis_file", "updated_file", "signature", "delta", "recreated_file"}
Commands == {"signature", "delta", "patch"}

Outputs == {"signature", "delta", "recreated_file"}

Missing == [exists |-> FALSE, bytes |-> <<>>]
FileOf(bytes) == [exists |-> TRUE, bytes |-> bytes]

\* disk_space[p] is -1 where the file cannot be created, Unlimited where a
\* write never fails, and otherwise the bytes a write stores before it fails.
Unlimited == 1000
NoFault == [p \in Outputs |-> Unlimited]

NotDecoded == [signature |-> [ok |-> FALSE, value |-> NoSignature],
               delta |-> [ok |-> FALSE, value |-> NoDelta]]

CliIdle ==
    /\ fs = [p \in Paths |-> Missing]
    /\ cli_chunk_size = 0
    /\ cli_pc = "idle"
    /\ exit_status = [c \in Commands |-> "not_run"]
    /\ exit_code = [c \in Commands |-> -1]
    /\ message = [c \in Commands |-> ""]
    /\ disk_space = NoFault

LibIdle ==
    /\ signature = NoSignature
    /\ our_sliding_blocks_rolling_hashes = <<>>
    /\ their_rolling_hashes = EmptyMap
    /\ index = 0
    /\ tokens = <<>>
    /\ patch_result = NoResult
    /\ patch_chunk_size = chunk_size
    /\ accesses = NoAccesses
    /\ decoded = NotDecoded

\* The library pipeline: any basis, any updated file, any chunk size >= 1.
Init ==
    /\ pc = "signature"
    /\ basis_file \in Files
    /\ updated_file \in Files
    /\ chunk_size \in ChunkSizes
    /\ delta = NoDelta
    /\ LibIdle
    /\ CliIdle

\* signature.rs: compute_signature(basis_file, chunk_size)
ComputeSignature ==
    /\ pc = "signature"
    /\ signature' = compute_signature(basis_file, chunk_size)
    /\ pc' = "delta"
    /\ UNCHANGED <<basis_file, updated_file, chunk_size, our_sliding_blocks_rolling_hashes,
                   their_rolling_hashes, index, tokens, delta, patch_result, accesses>>
    /\ UNCHANGED <<cliVars, decoded, patch_chunk_size>>

\* delta.rs: the two precomputations, up to `let mut index = 0`
DeltaPrepare ==
    /\ pc = "delta"
    /\ our_sliding_blocks_rolling_hashes' =
           sliding_blocks_rolling_hashes(updated_file, chunk_size)
    /\ their_rolling_hashes' = rolling_hashes_map(signature)
    /\ index' = 0
    /\ tokens' = <<>>
    /\ accesses' = NoAccesses
    /\ pc' = "scan"
    /\ UNCHANGED <<basis_file, updated_file, chunk_size, signature, delta, patch_result>>
    /\ UNCHANGED <<cliVars, decoded, patch_chunk_size>>

Advance ==
    LET step == ScanStep(signature, updated_file, chunk_size,
                         our_sliding_blocks_rolling_hashes, their_rolling_hashes, index)
    IN  /\ tokens' = Append(tokens, step.token)
        /\ index' = index + step.advance
        /\ accesses' = MergeAccesses(accesses,
                           IterationAccesses(updated_file, chunk_size,
                               our_sliding_blocks_rolling_hashes, their_rolling_hashes, index))
        /\ UNCHANGED <<pc, basis_file, updated_file, chunk_size, signature,
                       our_sliding_blocks_rolling_hashes, their_rolling_hashes,
                       delta, patch_result>>
        /\ UNCHANGED <<cliVars, decoded, patch_chunk_size>>

InLoop == pc = "scan" /\ index < Len(updated_file)

\* delta.rs: one iteration of the loop, by the branch it takes
ScanTrailing ==
    /\ InLoop
    /\ IsTrailing(updated_file, chunk_size, index)
    /\ Advance

ScanNoCandidate ==
    /\ InLoop
    /\ ~IsTrailing(updated_file, chunk_size, index)
    /\ ~HasCandidate(our_sliding_blocks_rolling_hashes, their_rolling_hashes, index)
    /\ Advance

ScanFalsePositive ==
    /\ InLoop
    /\ ~IsTrailing(updated_file, chunk_size, index)
    /\ HasCandidate(our_sliding_blocks_rolling_hashes, their_rolling_hashes, index)
    /\ StrongHashInRange(signature, our_sliding_blocks_rolling_hashes, their_rolling_hashes, index)
    /\ ~StrongHashesMatch(signature, updated_file, chunk_size,
                          our_sliding_blocks_rolling_hashes, their_rolling_hashes, index)
    /\ Advance

ScanMatch ==
    /\ InLoop
    /\ ~IsTrailing(updated_file, chunk_size, index)
    /\ HasCandidate(our_sliding_blocks_rolling_hashes, their_rolling_hashes, index)
    /\ StrongHashInRange(signature, our_sliding_blocks_rolling_hashes, their_rolling_hashes, index)
    /\ StrongHashesMatch(signature, updated_file, chunk_size,
                         our_sliding_blocks_rolling_hashes, their_rolling_hashes, index)
    /\ Advance

\* delta.rs: the candidate's index is past the signature's strong hashes; the
\* indexing panics and no Delta is returned.
ScanIndexOutOfBounds ==
    /\ InLoop
    /\ ~IsTrailing(updated_file, chunk_size, index)
    /\ HasCandidate(our_sliding_blocks_rolling_hashes, their_rolling_hashes, index)
    /\ ~StrongHashInRange(signature, our_sliding_blocks_rolling_hashes, their_rolling_hashes, index)
    /\ pc' = "panicked"
    /\ accesses' = MergeAccesses(accesses,
                       IterationAccesses(updated_file, chunk_size,
                           our_sliding_blocks_rolling_hashes, their_rolling_hashes, index))
    /\ UNCHANGED <<basis_file, updated_file, chunk_size, signature,
                   our_sliding_blocks_rolling_hashes, their_rolling_hashes, index, tokens,
                   delta, patch_result>>
    /\ UNCHANGED <<cliVars, decoded, patch_chunk_size>>

\* delta.rs: the loop ends and the Delta is returned
DeltaReturn ==
    /\ pc = "scan"
    /\ ~(index < Len(updated_file))
    /\ delta' = [content |-> tokens]
    /\ pc' = "patch"
    /\ UNCHANGED <<basis_file, updated_file, chunk_size, signature,
                   our_sliding_blocks_rolling_hashes, their_rolling_hashes, index, tokens,
                   patch_result, accesses>>
    /\ UNCHANGED <<cliVars, decoded, patch_chunk_size>>

\* patch.rs: apply_delta(basis_file, delta, chunk_size), with the chunk size
\* the caller gives to this call
ApplyDelta ==
    /\ pc = "patch"
    /\ patch_result' = apply_delta(basis_file, delta, patch_chunk_size)
    /\ pc' = "done"
    /\ UNCHANGED <<basis_file, updated_file, chunk_size, signature,
                   our_sliding_blocks_rolling_hashes, their_rolling_hashes, index, tokens,
                   delta, accesses>>
    /\ UNCHANGED <<cliVars, decoded, patch_chunk_size>>

Next ==
    \/ ComputeSignature
    \/ DeltaPrepare
    \/ ScanTrailing
    \/ ScanNoCandidate
    \/ ScanFalsePositive
    \/ ScanMatch
    \/ DeltaReturn
    \/ ApplyDelta

Spec == Init /\ [][Next]_vars

\* ------------------------------ compute_delta_to_our_file on any signature
\* The signature is a value handed in by the caller: the one of some basis,
\* or one whose vectors have lost their last entry.
DropLast(s) == IF s = <<>> THEN s ELSE SubSeq(s, 1, Len(s) - 1)

SignaturesFor(size) ==
    LET computed == {compute_signature(b, size) : b \in SeqsUpTo(MaxLen - 1)}
    IN  computed
        \cup {[sig EXCEPT !.strong_hashes = DropLast(@)] : sig \in computed}
        \cup {[sig EXCEPT !.rolling_hashes = DropLast(@)] : sig \in computed}

InitDelta ==
    /\ pc = "delta"
    /\ basis_file = <<>>
    /\ updated_file \in Files
    /\ chunk_size \in ChunkSizes
    /\ signature \in SignaturesFor(chunk_size)
    /\ our_sliding_blocks_rolling_hashes = <<>>
    /\ their_rolling_hashes = EmptyMap
    /\ index = 0
    /\ tokens = <<>>
    /\ delta = NoDelta
    /\ patch_result = NoResult
    /\ patch_chunk_size = chunk_size
    /\ accesses = NoAccesses
    /\ decoded = NotDecoded
    /\ CliIdle

NextDelta ==
    \/ DeltaPrepare
    \/ ScanTrailing
    \/ ScanNoCandidate
    \/ ScanFalsePositive
    \/ ScanMatch
    \/ ScanIndexOutOfBounds
    \/ DeltaReturn

SpecDelta == InitDelta /\ [][NextDelta]_vars

\* ------------------------------- apply_delta with another chunk size
\* The chunk size is an argument of each call: the pipeline with apply_delta
\* given a chunk size that is not the one of the signature and the delta.
InitMismatch ==
    /\ pc = "signature"
    /\ basis_file \in SeqsUpTo(MaxLen - 1)
    /\ updated_file \in SeqsUpTo(MaxLen - 1)
    /\ chunk_size \in ChunkSizes
    /\ patch_chunk_size \in ChunkSizes \ {chunk_size}
    /\ delta = NoDelta
    /\ signature = NoSignature
    /\ our_sliding_blocks_rolling_hashes = <<>>
    /\ their_rolling_hashes = EmptyMap
    /\ index = 0
    /\ tokens = <<>>
    /\ patch_result = NoResult
    /\ accesses = NoAccesses
    /\ decoded = NotDecoded
    /\ CliIdle

SpecMismatch == InitMismatch /\ [][Next]_vars

\* ----------------------------------------------- apply_delta on any delta
Tokens == {BlockIndex(k) : k \in 0..MaxLen} \cup {ByteLiteral(b) : b \in Byte}

RECURSIVE TokenSeqsUpTo(_)
TokenSeqsUpTo(n) ==
    IF n = 0 THEN {<<>>}
    ELSE LET shorter == TokenSeqsUpTo(n - 1)
         IN  shorter \cup {Append(s, t) : s \in {u \in shorter : Len(u) = n - 1}, t \in Tokens}

Deltas == {[content |-> c] : c \in TokenSeqsUpTo(MaxTokens)}

InitPatch ==
    /\ pc = "patch"
    /\ basis_file \in Files
    /\ updated_file = <<>>
    /\ chunk_size \in ChunkSizes
    /\ delta \in Deltas
    /\ LibIdle
    /\ CliIdle

NextPatch == ApplyDelta

SpecPatch == InitPatch /\ [][NextPatch]_vars

\* ------------------------------------- to_vec, write, read, from_slice
\* Any FileSignature and any Delta, as values: numbers on both sides of each
\* bound between two MessagePack forms.
HashValues == {0, 127, 128, 255, 256, 65536}

RECURSIVE SeqsOver(_, _)
SeqsOver(S, n) ==
    IF n = 0 THEN {<<>>}
    ELSE LET shorter == SeqsOver(S, n - 1)
         IN  shorter \cup {Append(q, x) : q \in {u \in shorter : Len(u) = n - 1}, x \in S}

SerdeSignatures ==
    {[strong_hashes |-> strong, rolling_hashes |-> rolling] :
        strong \in SeqsOver(HashValues, MaxHashes), rolling \in SeqsOver(HashValues, MaxHashes)}

SerdeTokens ==
    {BlockIndex(k) : k \in HashValues} \cup {ByteLiteral(b) : b \in {0, 127, 128, 255}}

SerdeDeltas == {[content |-> c] : c \in SeqsOver(SerdeTokens, MaxTokens)}

InitSerde ==
    /\ pc = "encode"
    /\ \/ signature \in SerdeSignatures /\ delta = NoDelta
       \/ signature = NoSignature /\ delta \in SerdeDeltas
    /\ basis_file = <<>>
    /\ updated_file = <<>>
    /\ chunk_size = 1
    /\ our_sliding_blocks_rolling_hashes = <<>>
    /\ their_rolling_hashes = EmptyMap
    /\ index = 0
    /\ tokens = <<>>
    /\ patch_result = NoResult
    /\ patch_chunk_size = chunk_size
    /\ accesses = NoAccesses
    /\ decoded = NotDecoded
    /\ CliIdle

\* The values are serialized and the bytes written to two files.
SerdeWrite ==
    /\ pc = "encode"
    /\ fs' = [fs EXCEPT !["signature"] = FileOf(signature_to_bytes(signature)),
                        !["delta"] = FileOf(delta_to_bytes(delta))]
    /\ pc' = "decode"
    /\ UNCHANGED <<basis_file, updated_file, chunk_size, signature,
                   our_sliding_blocks_rolling_hashes, their_rolling_hashes, index, tokens,
                   delta, patch_result, patch_chunk_size, accesses, cli_chunk_size, cli_pc,
                   exit_status, exit_code,
                   message, disk_space, decoded>>

\* The files are read and their bytes deserialized.
SerdeRead ==
    /\ pc = "decode"
    /\ decoded' = [signature |-> signature_from_bytes(fs["signature"].bytes),
                   delta |-> delta_from_bytes(fs["delta"].bytes)]
    /\ pc' = "decoded"
    /\ UNCHANGED <<basis_file, updated_file, chunk_size, signature,
                   our_sliding_blocks_rolling_hashes, their_rolling_hashes, index, tokens,
                   delta, patch_result, patch_chunk_size, accesses>>
    /\ UNCHANGED cliVars

NextSerde ==
    \/ SerdeWrite
    \/ SerdeRead

SpecSerde == InitSerde /\ [][NextSerde]_vars

\* ------------------------------------------------------- main.rs commands
\* io_utils::write_to_file: File::create, then write_all.  The file is created
\* (or emptied) first; a write that fails part way leaves what it had stored.
write_to_file(files, path, content) ==
    IF disk_space[path] < 0
    THEN [files |-> files, ok |-> FALSE]
    ELSE IF Len(content) <= disk_space[path]
    THEN [files |-> [files EXCEPT ![path] = FileOf(content)], ok |-> TRUE]
    ELSE [files |-> [files EXCEPT ![path] = FileOf(SubSeq(content, 1, disk_space[path]))],
          ok |-> FALSE]

\* The exit code of the process: 0 from `std::process::exit(0)` and from
\* main returning Ok, 1 from main returning Err, 101 from a panic.
ExitCode(command, status) ==
    CASE status = "success" -> 0
      [] status = "read_error" -> 0
      [] status = "write_error" -> 1
      [] status = "decode_error" -> IF command = "patch" THEN 101 ELSE 1
      [] status = "panic" -> 101

\* Whether compute_delta_to_our_file panics at
\* `signature.strong_hashes[matched_block_index]`.
RECURSIVE ScanPanicsFrom(_, _, _, _, _, _)
ScanPanicsFrom(sig, updated, size, sliding, map, idx) ==
    IF ~(idx < Len(updated)) THEN FALSE
    ELSE IF /\ ~IsTrailing(updated, size, idx)
            /\ HasCandidate(sliding, map, idx)
            /\ ~StrongHashInRange(sig, sliding, map, idx)
    THEN TRUE
    ELSE ScanPanicsFrom(sig, updated, size, sliding, map,
                        idx + ScanStep(sig, updated, size, sliding, map, idx).advance)

DeltaPanics(sig, updated, size) ==
    ScanPanicsFrom(sig, updated, size, sliding_blocks_rolling_hashes(updated, size),
                   rolling_hashes_map(sig), 0)

\* The three commands run one after the other, as the integration tests run
\* them; a command that fails does not stop the next one from running.
InitCli ==
    /\ pc = "idle"
    /\ basis_file = <<>>
    /\ updated_file = <<>>
    /\ chunk_size = 1
    /\ delta = NoDelta
    /\ LibIdle
    /\ \E basis \in {Missing} \cup {FileOf(f) : f \in Files},
          updated \in {Missing} \cup {FileOf(f) : f \in Files} :
           fs = [p \in Paths |-> CASE p = "basis_file" -> basis
                                  [] p = "updated_file" -> updated
                                  [] OTHER -> Missing]
    /\ cli_chunk_size \in 0..MaxChunk
    /\ cli_pc = "signature"
    /\ exit_status = [c \in Commands |-> "not_run"]
    /\ exit_code = [c \in Commands |-> -1]
    /\ message = [c \in Commands |-> ""]
    /\ disk_space = NoFault

\* handle_signature_command: what it leaves in the files, how it ends and
\* what it reports.  `chunks(0)` panics.
SignatureCommandOutcome ==
    IF ~fs["basis_file"].exists
    THEN [files |-> fs, status |-> "read_error", message |-> "Error while reading Basis file"]
    ELSE IF cli_chunk_size = 0
    THEN [files |-> fs, status |-> "panic", message |-> "chunk size must be non-zero"]
    ELSE LET sig == compute_signature(fs["basis_file"].bytes, cli_chunk_size)
             written == write_to_file(fs, "signature", signature_to_bytes(sig))
         IN  IF written.ok
             THEN [files |-> written.files, status |-> "success", message |-> ""]
             ELSE [files |-> written.files, status |-> "write_error",
                   message |-> "Unable to write to file"]

handle_signature_command ==
    /\ cli_pc = "signature"
    /\ fs' = SignatureCommandOutcome.files
    /\ exit_status' = [exit_status EXCEPT !["signature"] = SignatureCommandOutcome.status]
    /\ exit_code' = [exit_code EXCEPT !["signature"] = ExitCode("signature", SignatureCommandOutcome.status)]
    /\ message' = [message EXCEPT !["signature"] = SignatureCommandOutcome.message]
    /\ cli_pc' = "delta"
    /\ UNCHANGED <<cli_chunk_size, disk_space, decoded, libVars>>

\* (variant: a signature that cannot be decoded is taken as the empty one)
DeltaCommandOutcomeSwallowsDecodeError ==
    IF ~fs["signature"].exists
    THEN [files |-> fs, status |-> "read_error",
          message |-> "Error while reading Signature file"]
    ELSE IF ~fs["updated_file"].exists
    THEN [files |-> fs, status |-> "read_error", message |-> "Error while reading Updated file"]
    ELSE LET decoded_signature == signature_from_bytes(fs["signature"].bytes)
         IN  IF cli_chunk_size = 0
             THEN [files |-> fs, status |-> "panic", message |-> "window size must be non-zero"]
             ELSE IF DeltaPanics(decoded_signature.value, fs["updated_file"].bytes,
                                 cli_chunk_size)
             THEN [files |-> fs, status |-> "panic", message |-> "index out of bounds"]
             ELSE LET dlt == compute_delta_to_our_file(decoded_signature.value,
                                 fs["updated_file"].bytes, cli_chunk_size)
                      written == write_to_file(fs, "delta", delta_to_bytes(dlt))
                  IN  IF written.ok
                      THEN [files |-> written.files, status |-> "success", message |-> ""]
                      ELSE [files |-> written.files, status |-> "write_error",
                            message |-> "Unable to write to file"]

\* (variant: the delta file is created, empty, before the inputs are read)
DeltaCommandOutcomeCreatesFirst ==
    LET created == [fs EXCEPT !["delta"] = FileOf(<<>>)]
    IN  IF ~fs["signature"].exists
        THEN [files |-> created, status |-> "read_error",
              message |-> "Error while reading Signature file"]
        ELSE IF ~fs["updated_file"].exists
        THEN [files |-> created, status |-> "read_error",
              message |-> "Error while reading Updated file"]
        ELSE LET decoded_signature == signature_from_bytes(fs["signature"].bytes)
             IN  IF ~decoded_signature.ok
                 THEN [files |-> created, status |-> "decode_error",
                       message |-> "Could not read FileSignature from file provided."]
                 ELSE IF cli_chunk_size = 0
                 THEN [files |-> created, status |-> "panic",
                       message |-> "window size must be non-zero"]
                 ELSE IF DeltaPanics(decoded_signature.value, fs["updated_file"].bytes,
                                     cli_chunk_size)
                 THEN [files |-> created, status |-> "panic", message |-> "index out of bounds"]
                 ELSE LET dlt == compute_delta_to_our_file(decoded_signature.value,
                                     fs["updated_file"].bytes, cli_chunk_size)
                          written == write_to_file(fs, "delta", delta_to_bytes(dlt))
                      IN  IF written.ok
                          THEN [files |-> written.files, status |-> "success", message |-> ""]
                          ELSE [files |-> written.files, status |-> "write_error",
                                message |-> "Unable to write to file"]

\* handle_delta_command.  `windows(0)` and an index past the signature's
\* strong hashes panic.
DeltaCommandOutcome ==
    IF ~fs["signature"].exists
    THEN [files |-> fs, status |-> "read_error",
          message |-> "Error while reading Signature file"]
    ELSE IF ~fs["updated_file"].exists
    THEN [files |-> fs, status |-> "read_error", message |-> "Error while reading Updated file"]
    ELSE LET decoded_signature == signature_from_bytes(fs["signature"].bytes)
         IN  IF ~decoded_signature.ok
             THEN [files |-> fs, status |-> "decode_error",
                   message |-> "Could not read FileSignature from file provided."]
             ELSE IF cli_chunk_size = 0
             THEN [files |-> fs, status |-> "panic", message |-> "window size must be non-zero"]
             ELSE IF DeltaPanics(decoded_signature.value, fs["updated_file"].bytes,
                                 cli_chunk_size)
             THEN [files |-> fs, status |-> "panic", message |-> "index out of bounds"]
             ELSE LET dlt == compute_delta_to_our_file(decoded_signature.value,
                                 fs["updated_file"].bytes, cli_chunk_size)
                      written == write_to_file(fs, "delta", delta_to_bytes(dlt))
                  IN  IF written.ok
                      THEN [files |-> written.files, status |-> "success", message |-> ""]
                      ELSE [files |-> written.files, status |-> "write_error",
                            message |-> "Unable to write to file"]

handle_delta_command ==
    /\ cli_pc = "delta"
    /\ fs' = DeltaCommandOutcome.files
    /\ exit_status' = [exit_status EXCEPT !["delta"] = DeltaCommandOutcome.status]
    /\ exit_code' = [exit_code EXCEPT !["delta"] = ExitCode("delta", DeltaCommandOutcome.status)]
    /\ message' = [message EXCEPT !["delta"] = DeltaCommandOutcome.message]
    /\ cli_pc' = "patch"
    /\ UNCHANGED <<cli_chunk_size, disk_space, decoded, libVars>>

\* handle_patch_command.  `chunks(0)` and an index out of range panic, and so
\* does `delta_file_bytes.into()` on bytes that are not a Delta.
PatchCommandOutcome ==
    IF ~fs["basis_file"].exists
    THEN [files |-> fs, status |-> "read_error", message |-> "Error while reading Basis file"]
    ELSE IF ~fs["delta"].exists
    THEN [files |-> fs, status |-> "read_error", message |-> "Error while reading Delta file"]
    ELSE LET decoded_delta == delta_from_bytes(fs["delta"].bytes)
         IN  IF ~decoded_delta.ok
             THEN [files |-> fs, status |-> "decode_error",
                   message |-> "Could not deserialize Delta from Bytes"]
             ELSE IF cli_chunk_size = 0
             THEN [files |-> fs, status |-> "panic", message |-> "chunk size must be non-zero"]
             ELSE LET recreated == apply_delta(fs["basis_file"].bytes, decoded_delta.value,
                                               cli_chunk_size)
                  IN  IF recreated.panicked
                      THEN [files |-> fs, status |-> "panic",
                            message |-> "called Option::unwrap() on a None value"]
                      ELSE LET written == write_to_file(fs, "recreated_file", recreated.bytes)
                           IN  IF written.ok
                               THEN [files |-> written.files, status |-> "success",
                                     message |-> ""]
                               ELSE [files |-> written.files, status |-> "write_error",
                                     message |-> "Unable to write to file"]

handle_patch_command ==
    /\ cli_pc = "patch"
    /\ fs' = PatchCommandOutcome.files
    /\ exit_status' = [exit_status EXCEPT !["patch"] = PatchCommandOutcome.status]
    /\ exit_code' = [exit_code EXCEPT !["patch"] = ExitCode("patch", PatchCommandOutcome.status)]
    /\ message' = [message EXCEPT !["patch"] = PatchCommandOutcome.message]
    /\ cli_pc' = "done"
    /\ UNCHANGED <<cli_chunk_size, disk_space, decoded, libVars>>

NextCli ==
    \/ handle_signature_command
    \/ handle_delta_command
    \/ handle_patch_command

SpecCli == InitCli /\ [][NextCli]_vars

\* ------------------------------ the commands on any files, on any disk
\* Each command is a process of its own, run on the files it is given: the
\* signature and the delta need not be what the command before has written,
\* and an output path may take fewer bytes than the command writes.
Garbage == <<193>>

StoredSignatureFiles ==
    LET encoded == {signature_to_bytes(sig) : sig \in SignaturesFor(1)}
    IN  encoded \cup {DropLast(bytes) : bytes \in encoded} \cup {Garbage}

StoredDeltaFiles ==
    LET encoded == {delta_to_bytes(dlt) : dlt \in Deltas}
    IN  encoded \cup {DropLast(bytes) : bytes \in encoded} \cup {Garbage}

SmallFiles == {FileOf(f) : f \in SeqsUpTo(MaxLen - 2)}

FilesAt(basis, updated, stored_signature, stored_delta) ==
    [p \in Paths |-> CASE p = "basis_file" -> basis
                       [] p = "updated_file" -> updated
                       [] p = "signature" -> stored_signature
                       [] p = "delta" -> stored_delta
                       [] OTHER -> Missing]

\* signature, delta and patch of two files, one output path being short of space
DiskFullScenario ==
    /\ cli_pc = "signature"
    /\ cli_chunk_size \in ChunkSizes
    /\ \E basis \in SmallFiles, updated \in SmallFiles :
           fs = FilesAt(basis, updated, Missing, Missing)
    /\ \E path \in Outputs, space \in -1..MaxWritten :
           disk_space = [NoFault EXCEPT ![path] = space]

\* delta (then patch) with a signature file that was there before
StoredSignatureScenario ==
    /\ cli_pc = "delta"
    /\ cli_chunk_size \in 0..MaxChunk
    /\ \E basis \in {Missing, FileOf(<<>>)}, updated \in SmallFiles,
          stored_signature \in {FileOf(bytes) : bytes \in StoredSignatureFiles},
          stored_delta \in {Missing, FileOf(Garbage)} :
           fs = FilesAt(basis, updated, stored_signature, stored_delta)
    /\ disk_space = NoFault

\* patch with a delta file that was there before
StoredDeltaScenario ==
    /\ cli_pc = "patch"
    /\ cli_chunk_size \in 0..MaxChunk
    /\ \E basis \in {Missing} \cup SmallFiles,
          stored_delta \in {FileOf(bytes) : bytes \in StoredDeltaFiles} :
           fs = FilesAt(basis, Missing, Missing, stored_delta)
    /\ disk_space = NoFault

InitCliFaults ==
    /\ pc = "idle"
    /\ basis_file = <<>>
    /\ updated_file = <<>>
    /\ chunk_size = 1
    /\ delta = NoDelta
    /\ LibIdle
    /\ exit_status = [c \in Commands |-> "not_run"]
    /\ exit_code = [c \in Commands |-> -1]
    /\ message = [c \in Commands |-> ""]
    /\ \/ DiskFullScenario
       \/ StoredSignatureScenario
       \/ StoredDeltaScenario

SpecCliFaults == InitCliFaults /\ [][NextCli]_vars

\* ---------------------------------------------------------------- claims
IsBlockIndex(t) == t.kind = "BlockIndex"
IsByteLiteral(t) == t.kind = "ByteLiteral"

\* Basis bytes [k*B, min((k+1)*B, N)), by position.
BasisChunk(k) ==
    SubSeq(basis_file, k * chunk_size + 1, Min((k + 1) * chunk_size, Len(basis_file)))

CeilDiv(n, d) == (n + d - 1) \div d

SignatureComputed == pc # "signature"
DeltaComputed == pc \in {"patch", "done"}

\* C1: the round-trip law: patching the basis with the delta computed from
\* the basis' signature and the updated file returns exactly the updated file.
RoundTripLaw ==
    pc = "done" => /\ ~patch_result.panicked
                   /\ patch_result.bytes = updated_file

RoundTripWitness ==
    /\ pc = "done"
    /\ basis_file # updated_file
    /\ \E i \in DOMAIN delta.content : IsBlockIndex(delta.content[i])
    /\ \E i \in DOMAIN delta.content : IsByteLiteral(delta.content[i])
    /\ patch_result.bytes = updated_file

\* C3: the two vectors of a signature have the same length, ceil(N / B); an
\* empty basis has a signature with no entry.
SignatureLength ==
    SignatureComputed =>
        /\ Len(signature.strong_hashes) = Len(signature.rolling_hashes)
        /\ Len(signature.rolling_hashes) = CeilDiv(Len(basis_file), chunk_size)
        /\ (Len(basis_file) = 0 => signature = NoSignature)

SignatureLengthWitness ==
    /\ SignatureComputed
    /\ Len(basis_file) = 3
    /\ chunk_size = 2
    /\ Len(signature.rolling_hashes) = 2

OversizedChunkGivesOneEntry ==
    (SignatureComputed /\ chunk_size > Len(basis_file)) =>
        /\ Len(signature.rolling_hashes) = 1
        /\ Len(signature.strong_hashes) = 1

\* C5 (amended): a chunk size greater than the length of a basis that is not
\* empty gives exactly one entry, which covers the whole basis.
OversizedChunkOfNonEmptyBasis ==
    (SignatureComputed /\ chunk_size > Len(basis_file) /\ Len(basis_file) >= 1) =>
        /\ Len(signature.rolling_hashes) = 1
        /\ Len(signature.strong_hashes) = 1
        /\ signature.strong_hashes[1] = calculate_strong_hash(basis_file)
        /\ signature.rolling_hashes[1] =
               get_current_hash(from_initial_string(from_utf8_lossy(basis_file)))

OversizedChunkWitness ==
    /\ SignatureComputed
    /\ chunk_size > Len(basis_file)
    /\ Len(basis_file) = 2
    /\ Len(signature.rolling_hashes) = 1

\* C8: every BlockIndex of a delta built from a signature is below the number
\* of entries of that signature, so patching the same basis never panics.
BlockIndexesInRange ==
    /\ pc = "scan" =>
           \A i \in DOMAIN tokens :
               IsBlockIndex(tokens[i]) => tokens[i].value < Len(signature.rolling_hashes)
    /\ DeltaComputed =>
           \A i \in DOMAIN delta.content :
               IsBlockIndex(delta.content[i]) =>
                   /\ delta.content[i].value >= 0
                   /\ delta.content[i].value < Len(signature.rolling_hashes)
    /\ pc = "done" => ~patch_result.panicked

BlockIndexesInRangeWitness ==
    /\ pc = "done"
    /\ \E i \in DOMAIN delta.content :
           /\ IsBlockIndex(delta.content[i])
           /\ delta.content[i].value = Len(signature.rolling_hashes) - 1
           /\ delta.content[i].value >= 1

\* C9: for an updated file equal to the basis, the delta is floor(|X| / B)
\* BlockIndex tokens followed by |X| mod B ByteLiteral tokens.
EqualFilesDeltaShape ==
    (DeltaComputed /\ basis_file = updated_file) =>
        LET blocks == Len(basis_file) \div chunk_size
            literals == Len(basis_file) % chunk_size
        IN  /\ Len(delta.content) = blocks + literals
            /\ \A i \in 1..blocks : IsBlockIndex(delta.content[i])
            /\ \A i \in (blocks + 1)..(blocks + literals) : IsByteLiteral(delta.content[i])

\* C10: if no window of B bytes of the updated file has the bytes of a basis
\* chunk, every token is a ByteLiteral and the literals spell the updated file.
Windows(file, size) ==
    {SubSeq(file, j, j + size - 1) : j \in 1..(Len(file) - size + 1)}

NoWindowIsABasisChunk ==
    \A k \in 0..(CeilDiv(Len(basis_file), chunk_size) - 1) :
        BasisChunk(k) \notin Windows(updated_file, chunk_size)

DissimilarFilesGiveLiterals ==
    (DeltaComputed /\ NoWindowIsABasisChunk) =>
        /\ Len(delta.content) = Len(updated_file)
        /\ \A i \in DOMAIN delta.content :
               /\ IsByteLiteral(delta.content[i])
               /\ delta.content[i].value = updated_file[i]

\* ... reached where a window's rolling hash is in the index and only the
\* strong hash tells the window from the basis chunk.
DissimilarFilesWitness ==
    /\ pc = "done"
    /\ NoWindowIsABasisChunk
    /\ Len(updated_file) >= 2
    /\ \E j \in DOMAIN our_sliding_blocks_rolling_hashes :
           our_sliding_blocks_rolling_hashes[j] \in DOMAIN their_rolling_hashes
    /\ \A i \in DOMAIN delta.content : IsByteLiteral(delta.content[i])

\* C2: through the command line: signature, delta and patch run in this
\* order with one chunk size on a basis file and an updated file leave a
\* recreated file equal to the updated file, the signature and the delta
\* having been written to their files and read back.
EndToEndReconstruction ==
    (/\ cli_pc = "done"
     /\ fs["basis_file"].exists
     /\ fs["updated_file"].exists
     /\ cli_chunk_size >= 1) =>
        /\ fs["recreated_file"].exists
        /\ fs["recreated_file"].bytes = fs["updated_file"].bytes
        /\ signature_from_bytes(fs["signature"].bytes).ok
        /\ signature_from_bytes(fs["signature"].bytes).value =
               compute_signature(fs["basis_file"].bytes, cli_chunk_size)
        /\ delta_from_bytes(fs["delta"].bytes).ok
        /\ delta_from_bytes(fs["delta"].bytes).value =
               compute_delta_to_our_file(compute_signature(fs["basis_file"].bytes,
                                                           cli_chunk_size),
                                         fs["updated_file"].bytes, cli_chunk_size)

EndToEndWitness ==
    /\ cli_pc = "done"
    /\ fs["basis_file"].exists
    /\ fs["updated_file"].exists
    /\ fs["basis_file"].bytes # fs["updated_file"].bytes
    /\ fs["recreated_file"] = fs["updated_file"]
    /\ LET content == delta_from_bytes(fs["delta"].bytes).value.content
       IN  /\ \E i \in DOMAIN content : IsBlockIndex(content[i])
           /\ \E i \in DOMAIN content : IsByteLiteral(content[i]) /\ content[i].value >= 128

\* C6: apply_delta returns, in token order, basis bytes [k*B, min((k+1)*B, N))
\* for a BlockIndex(k) and the byte b for a ByteLiteral(b); the length of the
\* result is the sum of the tokens' contributions.
NumberOfChunks == CeilDiv(Len(basis_file), chunk_size)

Contribution(t) == IF IsBlockIndex(t) THEN BasisChunk(t.value) ELSE <<t.value>>

RECURSIVE SumOfLengths(_)
SumOfLengths(seqs) == IF seqs = <<>> THEN 0 ELSE Len(Head(seqs)) + SumOfLengths(Tail(seqs))

AllIndexesInRange ==
    \A i \in DOMAIN delta.content :
        IsBlockIndex(delta.content[i]) => delta.content[i].value < NumberOfChunks

PatchConcatenatesContributions ==
    (pc = "done" /\ AllIndexesInRange) =>
        LET parts == [i \in DOMAIN delta.content |-> Contribution(delta.content[i])]
        IN  /\ ~patch_result.panicked
            /\ patch_result.bytes = Flatten(parts)
            /\ Len(patch_result.bytes) = SumOfLengths(parts)

\* ... for block indexes out of order, the first being the short last chunk
PatchConcatenatesWitness ==
    /\ pc = "done"
    /\ AllIndexesInRange
    /\ Len(basis_file) = 3
    /\ chunk_size = 2
    /\ delta.content = <<BlockIndex(1), BlockIndex(0)>>
    /\ Len(patch_result.bytes) = 3

\* C7: a BlockIndex(k) with k not below the number of chunks of the basis
\* makes apply_delta fail; no bytes are returned.
OutOfRangeIndexIsFatal ==
    (pc = "done" /\ ~AllIndexesInRange) =>
        /\ patch_result.panicked
        /\ patch_result.bytes = <<>>

\* ... for a delta whose tokens before the bad index are valid
OutOfRangeIndexWitness ==
    /\ pc = "done"
    /\ Len(basis_file) = 2
    /\ chunk_size = 1
    /\ delta.content = <<BlockIndex(1), BlockIndex(2)>>
    /\ patch_result.panicked

\* C11: with a chunk size greater than the length of the updated file no
\* window is hashed and, whatever the signature holds, the delta is one
\* ByteLiteral for each byte of the updated file, in order, and no BlockIndex.
OversizedChunkGivesOnlyLiterals ==
    chunk_size > Len(updated_file) =>
        /\ our_sliding_blocks_rolling_hashes = <<>>
        /\ pc # "panicked"
        /\ pc = "scan" => \A i \in DOMAIN tokens : tokens[i] = ByteLiteral(updated_file[i])
        /\ DeltaComputed =>
               /\ Len(delta.content) = Len(updated_file)
               /\ \A i \in DOMAIN delta.content :
                      /\ IsByteLiteral(delta.content[i])
                      /\ delta.content[i].value = updated_file[i]

\* ... reached for a signature whose one entry is the updated file itself
OversizedChunkOnlyLiteralsWitness ==
    /\ DeltaComputed
    /\ chunk_size > Len(updated_file)
    /\ Len(updated_file) >= 2
    /\ Len(signature.strong_hashes) = 1
    /\ Len(signature.rolling_hashes) = 1
    /\ signature.strong_hashes[1] = calculate_strong_hash(updated_file)
    /\ Len(delta.content) = Len(updated_file)

\* The cursor after the first n tokens: a BlockIndex accounts for chunk_size
\* bytes of the updated file, a ByteLiteral for one.
RECURSIVE CursorAfter(_, _)
CursorAfter(toks, n) ==
    IF n = 0 THEN 0
    ELSE CursorAfter(toks, n - 1) + (IF IsBlockIndex(toks[n]) THEN chunk_size ELSE 1)

ScanStarted == pc \in {"scan", "patch", "done"}

WindowAt(c) == SubSeq(updated_file, c + 1, c + chunk_size)

EntriesWithRollingHash(h) ==
    {k \in 0..(Len(signature.rolling_hashes) - 1) : signature.rolling_hashes[k + 1] = h}

Maximum(S) == CHOOSE x \in S : \A y \in S : y <= x

\* Token n was pushed for a window whose candidate is not the entry it
\* equals: an entry of lower index has the window's rolling and strong hash.
MissedLowerMatch(n) ==
    LET c == CursorAfter(tokens, n - 1)
    IN  /\ c + chunk_size <= Len(updated_file)
        /\ our_sliding_blocks_rolling_hashes[c + 1] \in DOMAIN their_rolling_hashes
        /\ LET k == their_rolling_hashes[our_sliding_blocks_rolling_hashes[c + 1]]
           IN  /\ signature.strong_hashes[k + 1] # calculate_strong_hash(WindowAt(c))
               /\ \E j \in 0..(k - 1) :
                      /\ signature.rolling_hashes[j + 1] = signature.rolling_hashes[k + 1]
                      /\ signature.strong_hashes[j + 1] = calculate_strong_hash(WindowAt(c))
                      /\ BasisChunk(j) = WindowAt(c)

\* C18: the index maps each rolling hash of the signature to the highest
\* entry that has it; a token is decided by that candidate alone, so a window
\* that equals a lower entry with the same rolling hash gives a ByteLiteral of
\* its first byte.
LastInsertionWins ==
    ScanStarted =>
        /\ DOMAIN their_rolling_hashes =
               {signature.rolling_hashes[i] : i \in DOMAIN signature.rolling_hashes}
        /\ \A h \in DOMAIN their_rolling_hashes :
               their_rolling_hashes[h] = Maximum(EntriesWithRollingHash(h))
        /\ \A n \in DOMAIN tokens :
               MissedLowerMatch(n) =>
                   tokens[n] = ByteLiteral(updated_file[CursorAfter(tokens, n - 1) + 1])

LastInsertionWinsWitness ==
    /\ pc = "done"
    /\ \E n \in DOMAIN tokens : MissedLowerMatch(n) /\ IsByteLiteral(tokens[n])
    /\ \E h \in DOMAIN their_rolling_hashes : their_rolling_hashes[h] >= 1

\* C19: a BlockIndex(k) is pushed at cursor i only when a whole window starts
\* at i, the index maps the window's rolling hash to k and the window's strong
\* hash is entry k's; in every other case the token is ByteLiteral(U[i]).
BlockIndexCondition(c, k) ==
    /\ c + chunk_size <= Len(updated_file)
    /\ our_sliding_blocks_rolling_hashes[c + 1] \in DOMAIN their_rolling_hashes
    /\ their_rolling_hashes[our_sliding_blocks_rolling_hashes[c + 1]] = k
    /\ calculate_strong_hash(WindowAt(c)) = signature.strong_hashes[k + 1]

TokenChoice ==
    ScanStarted =>
        \A n \in DOMAIN tokens :
            LET c == CursorAfter(tokens, n - 1)
            IN  /\ c < Len(updated_file)
                /\ IsBlockIndex(tokens[n]) => BlockIndexCondition(c, tokens[n].value)
                /\ IsByteLiteral(tokens[n]) =>
                       /\ tokens[n].value = updated_file[c + 1]
                       /\ ~\E k \in 0..(Len(signature.strong_hashes) - 1) :
                              BlockIndexCondition(c, k)

\* ... reached with a match and a false positive in one delta
TokenChoiceWitness ==
    /\ pc = "done"
    /\ \E n \in DOMAIN tokens : IsBlockIndex(tokens[n]) /\ tokens[n].value >= 1
    /\ \E n \in DOMAIN tokens :
           LET c == CursorAfter(tokens, n - 1)
           IN  /\ IsByteLiteral(tokens[n])
               /\ c + chunk_size <= Len(updated_file)
               /\ our_sliding_blocks_rolling_hashes[c + 1] \in DOMAIN their_rolling_hashes

\* C20: each iteration pushes one token at the end and moves the cursor
\* forward: by chunk_size after a BlockIndex, by one after a ByteLiteral, so the
\* cursor is always the number of bytes the tokens account for.
CursorOrderStep ==
    (pc = "scan" /\ pc' = "scan") =>
        /\ index' > index
        /\ Len(tokens') = Len(tokens) + 1
        /\ SubSeq(tokens', 1, Len(tokens)) = tokens
        /\ LET t == tokens'[Len(tokens')]
           IN  \/ IsBlockIndex(t) /\ index' = index + chunk_size
               \/ IsByteLiteral(t) /\ t.value \in Byte /\ index' = index + 1

CursorOrder ==
    /\ [](pc = "scan" => index = CursorAfter(tokens, Len(tokens)))
    /\ [][CursorOrderStep]_vars

\* ... reached after a block of two bytes or more and two literals
CursorOrderWitness ==
    /\ pc = "scan"
    /\ chunk_size >= 2
    /\ Len(tokens) = 2
    /\ IsBlockIndex(tokens[1])
    /\ IsByteLiteral(tokens[2])
    /\ index = chunk_size + 1

\* C12: a FileSignature and a Delta that are serialized and deserialized come
\* back equal: the same hashes in the same two vectors, the same tokens of the
\* same kinds in the same order.
SerializationRoundTrip ==
    pc = "decoded" =>
        /\ decoded.signature = [ok |-> TRUE, value |-> signature]
        /\ decoded.delta = [ok |-> TRUE, value |-> delta]

\* ... reached for a delta of both kinds of token, with numbers of two forms
SerializationRoundTripWitness ==
    /\ pc = "decoded"
    /\ delta.content = <<ByteLiteral(255), BlockIndex(65536)>>
    /\ Len(fs["delta"].bytes) > 2
    /\ decoded.delta.value.content = <<ByteLiteral(255), BlockIndex(65536)>>

\* C14 (as stated): a command's process ends with exit code 0 when it has
\* done its work, and with another exit code when it could not read an
\* input, could not decode it, could not write its output or panicked.
ExitCodeTellsOutcome ==
    \A c \in Commands :
        exit_status[c] # "not_run" => (exit_code[c] = 0 <=> exit_status[c] = "success")

\* C15: a delta command given bytes that are no FileSignature, and a patch
\* command given bytes that are no Delta, end with an error that names the
\* artifact and a non-zero exit code, and write nothing.
DecodeFailureStep ==
    /\ (/\ cli_pc = "delta" /\ cli_pc' = "patch"
        /\ fs["signature"].exists /\ fs["updated_file"].exists
        /\ ~signature_from_bytes(fs["signature"].bytes).ok) =>
           /\ exit_status'["delta"] = "decode_error"
           /\ exit_code'["delta"] # 0
           /\ message'["delta"] = "Could not read FileSignature from file provided."
           /\ fs' = fs
    /\ (/\ cli_pc = "patch" /\ cli_pc' = "done"
        /\ fs["basis_file"].exists /\ fs["delta"].exists
        /\ ~delta_from_bytes(fs["delta"].bytes).ok) =>
           /\ exit_status'["patch"] = "decode_error"
           /\ exit_code'["patch"] # 0
           /\ message'["patch"] = "Could not deserialize Delta from Bytes"
           /\ fs' = fs

InvalidArtifactReported == [][DecodeFailureStep]_vars

\* ... reached by a delta command on a signature file cut short, followed by a
\* patch command on a delta file that is no MessagePack
InvalidArtifactWitness ==
    /\ cli_pc = "done"
    /\ cli_chunk_size >= 1
    /\ Len(fs["signature"].bytes) >= 2
    /\ exit_status["delta"] = "decode_error"
    /\ exit_status["patch"] = "decode_error"
    /\ fs["delta"] = FileOf(Garbage)
    /\ ~fs["recreated_file"].exists

\* C16 (as stated): a signature file that decodes to vectors of different
\* lengths makes the delta command end with a decoding error.
UnequalLengthsRejected ==
    (/\ exit_status["delta"] \notin {"not_run", "read_error"}
     /\ signature_from_bytes(fs["signature"].bytes).ok
     /\ LET sig == signature_from_bytes(fs["signature"].bytes).value
        IN  Len(sig.strong_hashes) # Len(sig.rolling_hashes)) =>
        exit_status["delta"] = "decode_error"

\* C17 (as stated): a command changes its output path only by writing its
\* whole result there; a command that fails leaves the path as it was.
CommandWriting(path) ==
    CASE path = "signature" -> "signature"
      [] path = "delta" -> "delta"
      [] path = "recreated_file" -> "patch"

OutputWrittenWholeStep ==
    \A path \in Outputs :
        fs'[path] # fs[path] => exit_status'[CommandWriting(path)] = "success"

OutputWrittenWhole == [][OutputWrittenWholeStep]_vars

\* C21: a cursor with fewer than chunk_size bytes after it gets the token
\* ByteLiteral(U[i]) and no hash is looked up or computed there, so the short
\* last chunk of the basis is never referenced.
TrailingRegionIsLiterals ==
    ScanStarted =>
        /\ \A n \in DOMAIN tokens :
               LET c == CursorAfter(tokens, n - 1)
               IN  c + chunk_size > Len(updated_file) =>
                       tokens[n] = ByteLiteral(updated_file[c + 1])
        /\ \A c \in accesses.rolling_hashes \cup accesses.strong_hash_computed :
               c + chunk_size <= Len(updated_file)

\* ... reached for an updated file equal to a basis that ends in a short chunk
TrailingRegionWitness ==
    /\ pc = "done"
    /\ basis_file = updated_file
    /\ Len(updated_file) = 3
    /\ chunk_size = 2
    /\ Len(signature.rolling_hashes) = 2
    /\ tokens = <<BlockIndex(0), ByteLiteral(updated_file[3])>>
    /\ accesses.rolling_hashes = {0}

\* C22 (as stated): when chunk_size consecutive bytes of the updated file are
\* the bytes of a whole chunk of the basis, the delta has a BlockIndex.
WholeChunks ==
    {k \in 0..(CeilDiv(Len(basis_file), chunk_size) - 1) : Len(BasisChunk(k)) = chunk_size}

ExistingMatchGivesBlockIndex ==
    (DeltaComputed /\ \E k \in WholeChunks : BasisChunk(k) \in Windows(updated_file, chunk_size)) =>
        \E i \in DOMAIN delta.content : IsBlockIndex(delta.content[i])

\* C23 (as stated): the hashes of a block are taken over its bytes as they
\* are: the rolling hash of a signature entry is that of a hasher fed the
\* chunk's byte values, chunks of one byte that differ have rolling hashes that
\* differ, and the strong hash is that of the chunk's bytes.
RawBytesRollingHash(block) == get_current_hash(from_initial_string(block))

HashesAreOverRawBytes ==
    SignatureComputed =>
        /\ \A k \in 0..(CeilDiv(Len(basis_file), chunk_size) - 1) :
               /\ signature.rolling_hashes[k + 1] = RawBytesRollingHash(BasisChunk(k))
               /\ signature.strong_hashes[k + 1] = calculate_strong_hash(BasisChunk(k))
        /\ chunk_size = 1 =>
               \A j, k \in 0..(Len(basis_file) - 1) :
                   basis_file[j + 1] # basis_file[k + 1] =>
                       signature.rolling_hashes[j + 1] # signature.rolling_hashes[k + 1]

\* C27 (as stated): the hash the scan has for the window at j, got by sliding
\* from the first window, is the rolling hash compute_signature gives to a
\* chunk with the window's bytes.
SlidingHashIsSignatureHash ==
    ScanStarted =>
        \A j \in 0..(Len(updated_file) - chunk_size) :
            our_sliding_blocks_rolling_hashes[j + 1] = BlockRollingHash(WindowAt(j))

\* C24 (as stated): apply_delta called with a chunk size that is not the one
\* of the signature and the delta returns bytes that are not the updated file.
MismatchGivesWrongOutput ==
    (pc = "done" /\ patch_chunk_size # chunk_size) =>
        /\ ~patch_result.panicked
        /\ patch_result.bytes # updated_file

\* C24 (amended): apply_delta makes no check of the chunk size: it cuts the
\* basis with the chunk size it is given, panics exactly when a block index is
\* past those chunks, and otherwise returns the tokens' contributions cut
\* with that chunk size: the updated file when the delta has no BlockIndex.
PatchChunk(k) ==
    SubSeq(basis_file, k * patch_chunk_size + 1,
           Min((k + 1) * patch_chunk_size, Len(basis_file)))

PatchContribution(t) == IF IsBlockIndex(t) THEN PatchChunk(t.value) ELSE <<t.value>>

MismatchIsNotChecked ==
    (pc = "done" /\ patch_chunk_size # chunk_size) =>
        LET blocks == {i \in DOMAIN delta.content : IsBlockIndex(delta.content[i])}
            parts == [i \in DOMAIN delta.content |-> PatchContribution(delta.content[i])]
        IN  /\ patch_result.panicked <=>
                   \E i \in blocks :
                       delta.content[i].value >= CeilDiv(Len(basis_file), patch_chunk_size)
            /\ ~patch_result.panicked => patch_result.bytes = Flatten(parts)
            /\ blocks = {} => patch_result.bytes = updated_file

\* ... reached where the call returns, without a failure, bytes that are not
\* the updated file
MismatchWitness ==
    /\ pc = "done"
    /\ patch_chunk_size < chunk_size
    /\ \E i \in DOMAIN delta.content : IsBlockIndex(delta.content[i])
    /\ ~patch_result.panicked
    /\ patch_result.bytes # updated_file
    /\ Len(patch_result.bytes) >= 1

\* C25: the strong hash of a window of the updated file is computed at the
\* cursors the scan visits whose window is whole and whose rolling hash is a
\* key of the candidate index, and at no other position: not where the rolling
\* hash is absent, not at positions a match skipped, not in the trailing
\* region.
VisitedCursors == {CursorAfter(tokens, n - 1) : n \in DOMAIN tokens}

CandidateCursors ==
    {c \in VisitedCursors :
        /\ c + chunk_size <= Len(updated_file)
        /\ our_sliding_blocks_rolling_hashes[c + 1] \in DOMAIN their_rolling_hashes}

StrongHashOnlyForCandidates ==
    ScanStarted => accesses.strong_hash_computed = CandidateCursors

\* ... reached by a scan that passes a whole window whose rolling hash is
\* absent and then hashes the next window, which is a candidate
StrongHashOnlyForCandidatesWitness ==
    /\ pc = "done"
    /\ chunk_size = 2
    /\ Len(updated_file) = 3
    /\ VisitedCursors = {0, 1}
    /\ our_sliding_blocks_rolling_hashes[1] \notin DOMAIN their_rolling_hashes
    /\ accesses.strong_hash_computed = {1}

\* C26: at every step of the scan the cursor is between 0 and the length of
\* the updated file and the tokens pushed so far account exactly for the bytes
\* before the cursor; in the delta returned, chunk_size times the number of
\* BlockIndex tokens plus the number of ByteLiteral tokens is the length of
\* the updated file.
NumberOf(toks, kind) == Cardinality({i \in DOMAIN toks : toks[i].kind = kind})

TokensAccountForPrefix ==
    /\ pc = "scan" =>
           /\ 0 <= index
           /\ index <= Len(updated_file)
           /\ index = CursorAfter(tokens, Len(tokens))
           /\ \A n \in DOMAIN tokens :
                  LET c == CursorAfter(tokens, n - 1)
                  IN  IF IsBlockIndex(tokens[n])
                      THEN c + chunk_size <= index
                      ELSE /\ c + 1 <= index
                           /\ tokens[n].value = updated_file[c + 1]
    /\ DeltaComputed =>
           chunk_size * NumberOf(delta.content, "BlockIndex")
               + NumberOf(delta.content, "ByteLiteral") = Len(updated_file)

\* ... reached by a delta that holds a token of each kind
TokensAccountForPrefixWitness ==
    /\ pc = "patch"
    /\ chunk_size = 2
    /\ Len(updated_file) = 3
    /\ NumberOf(delta.content, "BlockIndex") = 1
    /\ NumberOf(delta.content, "ByteLiteral") = 1

\* C28 (as stated): for every signature the scan loop runs to its end: it is
\* never left before the cursor has reached the end of the updated file, and
\* when the delta is returned the cursor is the length of the updated file.
ScanEndsAtEndOfFile ==
    /\ pc # "panicked"
    /\ DeltaComputed => index = Len(updated_file)

\* C29: a command that fails before its computation is complete (an input
\* that cannot be read, a signature or a delta that cannot be decoded, a
\* panic in the computation such as a block index that is out of range)
\* leaves its output file as it was: not created, not modified.
FailsBeforeWriting == {"read_error", "decode_error", "panic"}

FailedCommandKeepsOutputStep ==
    \A path \in Outputs :
        LET command == CommandWriting(path)
        IN  (/\ exit_status[command] = "not_run"
             /\ exit_status'[command] \in FailsBeforeWriting) =>
                fs'[path] = fs[path]

FailedCommandKeepsOutput == [][FailedCommandKeepsOutputStep]_vars

\* ... reached by a delta command given a signature file that cannot be
\* decoded, while a delta file of an earlier run is there
FailedCommandKeepsOutputWitness ==
    /\ exit_status["delta"] = "decode_error"
    /\ fs["signature"].exists
    /\ fs["delta"] = FileOf(Garbage)

\* C30: with a signature made by compute_signature the scan reads nothing out
\* of range: the vector of window hashes has M - B + 1 entries when B <= M and
\* none otherwise, and is read only at cursors i with i + B <= M; the updated
\* file is read only at positions below M; the strong hashes of the signature
\* are read only at indexes below their number.
ReadsAreInRange ==
    ScanStarted =>
        LET M == Len(updated_file)
        IN  /\ Len(our_sliding_blocks_rolling_hashes)
                   = IF chunk_size <= M THEN M - chunk_size + 1 ELSE 0
            /\ \A i \in accesses.rolling_hashes :
                   /\ i + chunk_size <= M
                   /\ i + 1 \in DOMAIN our_sliding_blocks_rolling_hashes
            /\ \A i \in accesses.updated_file : 0 <= i /\ i < M
            /\ \A k \in accesses.strong_hashes :
                   0 <= k /\ k < Len(signature.strong_hashes)

\* ... reached by a scan that read every byte of the updated file, the last
\* window hash and the last strong hash of the signature
ReadsAreInRangeWitness ==
    /\ pc = "done"
    /\ Len(updated_file) >= 2
    /\ Len(signature.strong_hashes) = 2
    /\ accesses.updated_file = 0..(Len(updated_file) - 1)
    /\ Len(our_sliding_blocks_rolling_hashes) - 1 \in accesses.rolling_hashes
    /\ Len(signature.strong_hashes) - 1 \in accesses.strong_hashes

=============================================================================
